---- MODULE Spec2Model ----
(***************************************************************************)
(* Model of services/relay_common.go: the tool-use repair of a request     *)
(* body (FixIncompleteToolUse), the provider filters, the grouping by      *)
(* level and the round-robin reordering (Reorder).                         *)
(***************************************************************************)
EXTENDS Integers, Sequences, FiniteSets, TLC

VARIABLES
    body,       \* the request body handed to FixIncompleteToolUse next
    repaired,   \* the flag the last FixIncompleteToolUse call returned
    prevBody,   \* the body the last FixIncompleteToolUse call was given
    calls,      \* number of FixIncompleteToolUse calls made so far
    lastStart,  \* RoundRobinState.lastStart: key -> name of the last first provider
    rrCall,     \* the last Reorder call: its key, input, output, the name it read
    run,        \* a series of Reorder calls with one list on one key
    req,        \* a selection request: dialect, providers, kind, model, hooks
    stage,      \* "idle", "input" (request drawn), "filtered", "grouped" or "selected"
    fres,       \* FilterResult: Active and SkippedCount
    lg,         \* LevelGroup: Groups and SortedLevels
    cands,      \* the candidate list
    seen,       \* key -> the names of the providers passed to Reorder for the key
    mu,         \* RoundRobinState.mu: the goroutine holding it, 0 when free
    procs,      \* the concurrent Reorder calls: position and local variables
    served,     \* the Reorder calls that have returned, in the order of return
    rc,         \* a RetryContext
    attempts,   \* the RecordAttempt calls made on rc, in order
    resp        \* the BuildFailureResponse call made: its arguments and result

repairVars == <<body, repaired, prevBody, calls>>

rrVars == <<lastStart, rrCall, run>>

selVars == <<req, stage, fres, lg, cands>>

concVars == <<mu, procs, served>>

retryVars == <<rc, attempts, resp>>

vars == <<body, repaired, prevBody, calls, lastStart, rrCall, run, req, stage, fres, lg, cands,
          seen, mu, procs, served, rc, attempts, resp>>

----------------------------------------------------------------------------
(* Bounds of the model *)

MaxMsgs == 2
MaxItems == 2
MaxCalls == 2
MaxProviders == 3
ExtraCalls == 2
MaxAttempts == 2

----------------------------------------------------------------------------
(* Sequences helpers *)

Range(s) == {s[i] : i \in 1..Len(s)}

\* all sequences over S of length <= n without a repeated element
InjSeqs(S, n) ==
    UNION {{s \in [1..k -> S] : \A i, j \in 1..k : s[i] = s[j] => i = j} : k \in 0..n}

\* all sequences over S of length <= n
SeqsUpTo(S, n) == UNION {[1..k -> S] : k \in 0..n}

----------------------------------------------------------------------------
(* JSON request bodies, as gjson reads them.  A field that is absent reads  *)
(* as the empty string (gjson Result.String() of a missing value).         *)

ErrText == "tool call interrupted"

TextItem == [type |-> "text", id |-> "", tool_use_id |-> "", is_error |-> FALSE, content |-> ""]

ToolUseItem(i) ==
    [type |-> "tool_use", id |-> i, tool_use_id |-> "", is_error |-> FALSE, content |-> ""]

ToolResultItem(i, err, txt) ==
    [type |-> "tool_result", id |-> "", tool_use_id |-> i, is_error |-> err, content |-> txt]

ToolIds == {"T1", "T2"}

AssistantItems == {TextItem} \cup {ToolUseItem(i) : i \in ToolIds \cup {""}}

UserItems == {TextItem} \cup {ToolResultItem(i, FALSE, "ok") : i \in ToolIds}

StringContent == [isArray |-> FALSE, items |-> <<>>]

ArrayContent(its) == [isArray |-> TRUE, items |-> its]

Contents(S) == {StringContent} \cup {ArrayContent(s) : s \in InjSeqs(S, MaxItems)}

Msg(r, c) == [role |-> r, content |-> c]

InputMessages ==
    {Msg("assistant", c) : c \in Contents(AssistantItems)}
        \cup {Msg("user", c) : c \in Contents(UserItems)}

\* messages: "missing" (no such field), "scalar" (not an array) or "array"
Body(k, arr) == [mk |-> k, arr |-> arr]

InputBodies ==
    {Body("missing", <<>>), Body("scalar", <<>>)}
        \cup {Body("array", s) : s \in SeqsUpTo(InputMessages, MaxMsgs)}

----------------------------------------------------------------------------
(* FixIncompleteToolUse *)

\* mutant: the first message with role assistant
FirstAssistantIdx(msgs) ==
    LET S == {i \in 1..Len(msgs) : msgs[i].role = "assistant"}
    IN IF S = {} THEN 0 ELSE CHOOSE i \in S : \A j \in S : i <= j

\* index (1-based) of the last message with role assistant, 0 when there is none
LastAssistantIdx(msgs) ==
    LET S == {i \in 1..Len(msgs) : msgs[i].role = "assistant"}
    IN IF S = {} THEN 0 ELSE CHOOSE i \in S : \A j \in S : j <= i

\* mutant: the ids collected in reverse order
CollectToolUseIDsReversed(items) ==
    LET uses == SelectSeq(items, LAMBDA it : it.type = "tool_use" /\ it.id # "")
    IN [k \in 1..Len(uses) |-> uses[Len(uses) + 1 - k].id]

\* the ids of the tool_use items of a content array, in order, empty ids left out
RECURSIVE CollectToolUseIDs(_)
CollectToolUseIDs(items) ==
    IF items = <<>> THEN <<>>
    ELSE LET item == Head(items)
             rest == CollectToolUseIDs(Tail(items))
         IN IF item.type = "tool_use" /\ item.id # "" THEN <<item.id>> \o rest ELSE rest

\* mutant: only the first item of the next message is looked at
HasToolResultFirstOnly(msgs, idx) ==
    /\ idx + 1 <= Len(msgs)
    /\ msgs[idx + 1].role = "user"
    /\ msgs[idx + 1].content.isArray
    /\ Len(msgs[idx + 1].content.items) >= 1
    /\ msgs[idx + 1].content.items[1].type = "tool_result"

\* whether the message right after index idx is a user message with a tool_result item
HasToolResult(msgs, idx) ==
    /\ idx + 1 <= Len(msgs)
    /\ msgs[idx + 1].role = "user"
    /\ msgs[idx + 1].content.isArray
    /\ \E k \in 1..Len(msgs[idx + 1].content.items) :
          msgs[idx + 1].content.items[k].type = "tool_result"

\* the synthesized user message
NewUserMsg(ids) ==
    Msg("user", ArrayContent([k \in 1..Len(ids) |-> ToolResultItem(ids[k], TRUE, ErrText)]))

\* mutant: the index is one too small, the last message is overwritten
SetMessageOffByOne(b, msg) == Body(b.mk, [b.arr EXCEPT ![Len(b.arr)] = msg])

\* sjson.SetBytes(body, "messages.<len>", msg): sets the element one past the end
SetMessage(b, msg) == Body(b.mk, Append(b.arr, msg))

FixIncompleteToolUse(b) ==
    LET unchanged == [body |-> b, repaired |-> FALSE]
        idx == LastAssistantIdx(b.arr)
    IN IF b.mk # "array" THEN unchanged
       ELSE IF Len(b.arr) = 0 THEN unchanged
       ELSE IF idx = 0 THEN unchanged
       ELSE IF ~b.arr[idx].content.isArray THEN unchanged
       ELSE LET toolUseIDs == CollectToolUseIDs(b.arr[idx].content.items)
            IN IF Len(toolUseIDs) = 0 THEN unchanged
               ELSE IF HasToolResult(b.arr, idx) THEN unchanged
               ELSE [body |-> SetMessage(b, NewUserMsg(toolUseIDs)), repaired |-> TRUE]

----------------------------------------------------------------------------
(* Providers *)

NameOf == <<"A", "B", "C", "D", "E">>

Names == {NameOf[i] : i \in 1..MaxProviders}

Provider(n, l, en, url, apiKey) ==
    [Name |-> n, Level |-> l, Enabled |-> en, APIURL |-> url, APIKey |-> apiKey]

GetName(p) == p.Name

NamesOf(ps) == [i \in 1..Len(ps) |-> GetName(ps[i])]

UniqueNames(ps) == \A i, j \in 1..Len(ps) : GetName(ps[i]) = GetName(ps[j]) => i = j

----------------------------------------------------------------------------
(* Provider and GeminiProvider methods *)

\* a GeminiProvider: HasValidConfig reads BaseURL only, the credential is kept
\* as APIKey
GeminiProvider(n, l, en, url, apiKey) ==
    [Name |-> n, Level |-> l, Enabled |-> en, BaseURL |-> url, APIKey |-> apiKey]

\* mutant: the configured level is returned as it is
GetLevelRaw(p) == p.Level

\* Provider.GetLevel and GeminiProvider.GetLevel
GetLevel(p) == IF p.Level <= 0 THEN 1 ELSE p.Level

IsEnabled(p) == p.Enabled

\* mutant: the credential is not looked at
HasValidConfigURLOnly(p) == p.APIURL # ""

\* Provider.HasValidConfig
HasValidConfig(p) == p.APIURL # "" /\ p.APIKey # ""

\* mutant: the credential is required, as for a Provider
GeminiHasValidConfigWithKey(p) == p.BaseURL # "" /\ p.APIKey # ""

\* GeminiProvider.HasValidConfig
GeminiHasValidConfig(p) == p.BaseURL # ""

----------------------------------------------------------------------------
(* The hooks handed to the filters.  A hook is nil or a function; the      *)
(* blacklist checker answers from a set of (kind, name) pairs, the model    *)
(* checker from the names of the providers that admit the requested model, *)
(* the config validator from the names of the providers it finds errors in *)

NilHook == [isNil |-> TRUE, set |-> {}]

Hook(set) == [isNil |-> FALSE, set |-> set]

\* blacklistChecker(kind, name)
IsBlacklisted(bl, kind, name) == <<kind, name>> \in bl.set

\* modelChecker(&provider, requestedModel)
SupportsModel(mc, p) == GetName(p) \in mc.set

\* len(configValidator(&provider)) > 0
HasConfigErrors(cv, p) == GetName(p) \in cv.set

----------------------------------------------------------------------------
(* FilterProviders and FilterGeminiProviders *)

FilterResult(active, skipped) == [Active |-> active, SkippedCount |-> skipped]

\* mutant: the blacklist is not asked
FateNoBlacklist(p, kind, requestedModel, bl, mc, cv) ==
    IF ~IsEnabled(p) \/ ~HasValidConfig(p) THEN "continue"
    ELSE IF ~cv.isNil /\ HasConfigErrors(cv, p) THEN "skipped"
    ELSE IF ~mc.isNil /\ requestedModel # "" /\ ~SupportsModel(mc, p) THEN "skipped"
    ELSE "active"

\* one iteration of the loop of FilterProviders: "continue" (left out and not
\* counted), "skipped" (left out and counted) or "active" (appended)
Fate(p, kind, requestedModel, bl, mc, cv) ==
    IF ~IsEnabled(p) \/ ~HasValidConfig(p) THEN "continue"
    ELSE IF ~cv.isNil /\ HasConfigErrors(cv, p) THEN "skipped"
    ELSE IF ~mc.isNil /\ requestedModel # "" /\ ~SupportsModel(mc, p) THEN "skipped"
    ELSE IF ~bl.isNil /\ IsBlacklisted(bl, kind, GetName(p)) THEN "skipped"
    ELSE "active"

RECURSIVE FilterProvidersLoop(_, _, _, _, _, _, _)
FilterProvidersLoop(providers, kind, requestedModel, bl, mc, cv, result) ==
    IF providers = <<>> THEN result
    ELSE LET provider == Head(providers)
             fate == Fate(provider, kind, requestedModel, bl, mc, cv)
             next == IF fate = "active"
                         THEN FilterResult(Append(result.Active, provider), result.SkippedCount)
                     ELSE IF fate = "skipped"
                         THEN FilterResult(result.Active, result.SkippedCount + 1)
                     ELSE result
         IN FilterProvidersLoop(Tail(providers), kind, requestedModel, bl, mc, cv, next)

FilterProviders(providers, kind, requestedModel, bl, mc, cv) ==
    FilterProvidersLoop(providers, kind, requestedModel, bl, mc, cv, FilterResult(<<>>, 0))

\* one iteration of the loop of FilterGeminiProviders
GeminiFate(p, bl) ==
    IF ~IsEnabled(p) \/ ~GeminiHasValidConfig(p) THEN "continue"
    ELSE IF ~bl.isNil /\ IsBlacklisted(bl, "gemini", GetName(p)) THEN "continue"
    ELSE "active"

RECURSIVE FilterGeminiLoop(_, _, _)
FilterGeminiLoop(providers, bl, result) ==
    IF providers = <<>> THEN result
    ELSE LET provider == Head(providers)
             next == IF GeminiFate(provider, bl) = "active"
                         THEN FilterResult(Append(result.Active, provider), result.SkippedCount)
                     ELSE result
         IN FilterGeminiLoop(Tail(providers), bl, next)

FilterGeminiProviders(providers, bl) == FilterGeminiLoop(providers, bl, FilterResult(<<>>, 0))

----------------------------------------------------------------------------
(* GroupByLevel *)

\* sort.Ints of the keys of a map: the keys in ascending order
RECURSIVE SortInts(_)
SortInts(S) ==
    IF S = {} THEN <<>>
    ELSE LET m == CHOOSE x \in S : \A y \in S : x <= y
         IN <<m>> \o SortInts(S \ {m})

\* mutant: each provider is put in front of its group
GroupsOfPrepend(providers) ==
    [level \in {GetLevel(providers[i]) : i \in 1..Len(providers)} |->
        LET g == SelectSeq(providers, LAMBDA p : GetLevel(p) = level)
        IN [k \in 1..Len(g) |-> g[Len(g) + 1 - k]]]

\* groups[level] = append(groups[level], p) for each p in order
GroupsOf(providers) ==
    [level \in {GetLevel(providers[i]) : i \in 1..Len(providers)} |->
        SelectSeq(providers, LAMBDA p : GetLevel(p) = level)]

GroupByLevel(providers) ==
    LET groups == GroupsOf(providers)
    IN [Groups |-> groups, SortedLevels |-> SortInts(DOMAIN groups)]

----------------------------------------------------------------------------
(* RoundRobinState and Reorder *)

\* the (platform, level) pairs Reorder is called with
RRKeys == {<<"claude", 1>>, <<"codex", 2>>}

\* fmt.Sprintf("%s:%d", platform, level)
Key(platform, level) == platform \o ":" \o ToString(level)

\* NewRoundRobinState: an empty map
NewRoundRobinState == [k \in {} |-> ""]

\* m[key] of a Go map: the zero value "" when the key is absent
Lookup(m, key) == IF key \in DOMAIN m THEN m[key] ELSE ""

\* mutant: the name is written to every entry of the map
StoreEverywhere(m, key, v) == [k \in DOMAIN m \cup {key} |-> v]

\* m[key] = v
Store(m, key, v) == [k \in DOMAIN m \cup {key} |-> IF k = key THEN v ELSE m[k]]

\* mutant: the index starts at 0, so a name that is not found counts as the
\* first provider
LastIdxFromZero(providers, name) ==
    LET S == {i \in 1..Len(providers) : GetName(providers[i]) = name}
    IN IF S = {} THEN 0 ELSE (CHOOSE i \in S : \A j \in S : i <= j) - 1

\* index (0-based) of the first provider named name, -1 when there is none
LastIdx(providers, name) ==
    LET S == {i \in 1..Len(providers) : GetName(providers[i]) = name}
    IN IF S = {} THEN -1 ELSE (CHOOSE i \in S : \A j \in S : i <= j) - 1

\* mutant: the index is not wrapped around but stops at the last provider
RotateNoWrap(providers, lastIdx) ==
    LET n == Len(providers)
    IN [i \in 1..n |-> providers[IF lastIdx + i >= n THEN n ELSE lastIdx + i + 1]]

\* mutant: the rotation starts at the last first provider, not after it
RotateFromLast(providers, lastIdx) ==
    LET n == Len(providers)
    IN [i \in 1..n |-> providers[((lastIdx + (i - 1)) % n) + 1]]

\* result[i] = providers[(lastIdx + 1 + i) % len(providers)], i and lastIdx 0-based
Rotate(providers, lastIdx) ==
    LET n == Len(providers)
    IN [i \in 1..n |-> providers[((lastIdx + 1 + (i - 1)) % n) + 1]]

\* mutant: the name of the new first provider is not stored after the rotation
ReorderNoUpdate(ls, platform, level, providers) ==
    IF Len(providers) <= 1 THEN [out |-> providers, lastStart |-> ls]
    ELSE LET key == Key(platform, level)
             last == Lookup(ls, key)
             ls1 == Store(ls, key, GetName(providers[1]))
             lastIdx == LastIdx(providers, last)
         IN IF last = "" \/ lastIdx = -1 THEN [out |-> providers, lastStart |-> ls1]
            ELSE [out |-> Rotate(providers, lastIdx), lastStart |-> ls1]

\* mutant: the name of the first provider is stored before the length is
\* looked at, the empty name for an empty list
ReorderEagerStore(ls, platform, level, providers) ==
    LET key == Key(platform, level)
        last == Lookup(ls, key)
        ls1 == Store(ls, key, IF Len(providers) = 0 THEN "" ELSE GetName(providers[1]))
        lastIdx == LastIdx(providers, last)
    IN IF Len(providers) <= 1 \/ last = "" \/ lastIdx = -1
       THEN [out |-> providers, lastStart |-> ls1]
       ELSE LET result == Rotate(providers, lastIdx)
            IN [out |-> result, lastStart |-> Store(ls1, key, GetName(result[1]))]

\* Reorder on the map ls: the list returned and the map afterwards
Reorder(ls, platform, level, providers) ==
    IF Len(providers) <= 1 THEN [out |-> providers, lastStart |-> ls]
    ELSE LET key == Key(platform, level)
             last == Lookup(ls, key)
             ls1 == Store(ls, key, GetName(providers[1]))
             lastIdx == LastIdx(providers, last)
         IN IF last = "" THEN [out |-> providers, lastStart |-> ls1]
            ELSE IF lastIdx = -1 THEN [out |-> providers, lastStart |-> ls1]
            ELSE LET result == Rotate(providers, lastIdx)
                 IN [out |-> result, lastStart |-> Store(ls1, key, GetName(result[1]))]

\* the lists of names without a repeated name
NameLists == InjSeqs(Names, MaxProviders)

\* the lists of one level handed to Reorder: names unique
LevelLists(level) ==
    {[i \in 1..Len(ns) |-> Provider(ns[i], level, TRUE, "u", "k")] : ns \in NameLists}

----------------------------------------------------------------------------
(* Candidate selection: the providers that pass the filter are grouped by  *)
(* level, each group is reordered, the groups are concatenated in the      *)
(* order of SortedLevels                                                   *)

RECURSIVE ReorderLevels(_, _, _, _, _)
ReorderLevels(ls, platform, groups, i, acc) ==
    IF i > Len(groups.SortedLevels) THEN [cands |-> acc, lastStart |-> ls]
    ELSE LET level == groups.SortedLevels[i]
             r == Reorder(ls, platform, level, groups.Groups[level])
         IN ReorderLevels(r.lastStart, platform, groups, i + 1, acc \o r.out)

SelectCandidates(ls, platform, groups) == ReorderLevels(ls, platform, groups, 1, <<>>)

----------------------------------------------------------------------------
(* The requests the filters and the selection are given *)

Kinds == {"claude", "gemini"}

\* Enabled, APIURL, APIKey: a usable provider and the three single defects
ConfigShapes ==
    {<<TRUE, "u", "k">>, <<FALSE, "u", "k">>, <<TRUE, "", "k">>, <<TRUE, "u", "">>}

\* Enabled, BaseURL, APIKey
GeminiShapes == BOOLEAN \X {"u", ""} \X {"k", ""}

\* configured levels: unset (0) and two priorities
ConfigLevels == {0, 1, 2}

\* the sequences of at most MaxProviders shapes
ShapeLists(shapes) == UNION {[1..k -> shapes] : k \in 0..MaxProviders}

MkProvider(n, sh) == Provider(n, 1, sh[1], sh[2], sh[3])

MkGemini(n, sh) == GeminiProvider(n, 1, sh[1], sh[2], sh[3])

MkLevelProvider(n, l) == Provider(n, l, TRUE, "u", "k")

MkLevelGemini(n, l) == GeminiProvider(n, l, TRUE, "u", "k")

AtMostOne(S) == {{}} \cup {{x} : x \in S}

\* nil, any set of names blacklisted for the kind, or one name blacklisted for another kind
Blacklists(kind) ==
    {NilHook} \cup {Hook({<<kind, n>> : n \in S}) : S \in SUBSET Names}
        \cup {Hook({<<k, n>>}) : k \in Kinds \ {kind}, n \in Names}

\* nil, or a validator that finds errors in at most one provider
Validators == {NilHook} \cup {Hook(S) : S \in AtMostOne(Names)}

\* nil, or a checker for which at most one provider does not admit the model
ModelCheckers == {NilHook} \cup {Hook(Names \ S) : S \in AtMostOne(Names)}

Models == {"", "m1"}

Request(dialect, providers, model, bl, mc, cv) ==
    [dialect |-> dialect, providers |-> providers, kind |-> dialect,
     requestedModel |-> model, bl |-> bl, mc |-> mc, cv |-> cv]

\* lists of providers named A, B, ... in this order, each of any shape
ProviderLists ==
    {[i \in 1..Len(f) |-> MkProvider(NameOf[i], f[i])] : f \in ShapeLists(ConfigShapes)}

GeminiLists ==
    {[i \in 1..Len(f) |-> MkGemini(NameOf[i], f[i])] : f \in ShapeLists(GeminiShapes)}

\* lists of usable providers named A, B, ... in this order, each of any level
LevelProviderLists ==
    {[i \in 1..Len(f) |-> MkLevelProvider(NameOf[i], f[i])] : f \in ShapeLists(ConfigLevels)}

LevelGeminiLists ==
    {[i \in 1..Len(f) |-> MkLevelGemini(NameOf[i], f[i])] : f \in ShapeLists(ConfigLevels)}

\* Enabled, Level
GroupShapes == BOOLEAN \X ConfigLevels

MkGroupProvider(n, sh) == Provider(n, sh[2], sh[1], "u", "k")

MkGroupGemini(n, sh) == GeminiProvider(n, sh[2], sh[1], "u", "k")

\* lists of providers named A, B, ... in this order, each enabled or not and
\* of any level
GroupProviderLists ==
    {[i \in 1..Len(f) |-> MkGroupProvider(NameOf[i], f[i])] : f \in ShapeLists(GroupShapes)}

GroupGeminiLists ==
    {[i \in 1..Len(f) |-> MkGroupGemini(NameOf[i], f[i])] : f \in ShapeLists(GroupShapes)}

\* the round-robin maps earlier requests of the kind can have left
RRStates(kind) ==
    LET keys == {Key(kind, l) : l \in {GetLevel([Level |-> c]) : c \in ConfigLevels}}
    IN UNION {[D -> Names] : D \in SUBSET keys}

NoRequest == Request("", <<>>, "", NilHook, NilHook, NilHook)

NoLevelGroup == [Groups |-> <<>>, SortedLevels |-> <<>>]

SelectIdle ==
    /\ req = NoRequest
    /\ stage = "idle"
    /\ fres = FilterResult(<<>>, 0)
    /\ lg = NoLevelGroup
    /\ cands = <<>>

----------------------------------------------------------------------------
(* RetryContext and BuildFailureResponse *)

\* an error value: nil, or an error with the text of its Error()
NilError == [isNil |-> TRUE, msg |-> ""]

Err(m) == [isNil |-> FALSE, msg |-> m]

Errors == {NilError, Err("e1"), Err("e2")}

\* time.Second in units of time.Duration
Second == 1000000000

\* NewRetryContext
NewRetryContext(failureThreshold, retryWaitSeconds) ==
    [MaxRetryPerProvider |-> failureThreshold,
     RetryWaitDuration |-> retryWaitSeconds * Second,
     TotalAttempts |-> 0,
     LastError |-> NilError,
     LastProvider |-> "",
     LastDuration |-> 0]

\* mutant: only the failed attempts are counted
RecordAttemptFailedOnly(c, provider, duration, err) ==
    [c EXCEPT !.TotalAttempts = IF err.isNil THEN @ ELSE @ + 1,
              !.LastProvider = provider,
              !.LastDuration = duration,
              !.LastError = IF err.isNil THEN @ ELSE err]

\* mutant: the error of the call is stored even when it is nil
RecordAttemptAnyError(c, provider, duration, err) ==
    [c EXCEPT !.TotalAttempts = @ + 1,
              !.LastProvider = provider,
              !.LastDuration = duration,
              !.LastError = err]

\* RetryContext.RecordAttempt on the context c: the context afterwards
RecordAttempt(c, provider, duration, err) ==
    [c EXCEPT !.TotalAttempts = @ + 1,
              !.LastProvider = provider,
              !.LastDuration = duration,
              !.LastError = IF err.isNil THEN @ ELSE err]

\* the text used when there is no last error
UnknownErrorText == "unknown error"

\* the text of the field hint
HintText == "blacklist mode is on: the same provider is retried until it is blacklisted"

\* fmt.Sprintf of the field error
FailureText(lastProvider, errorMsg) ==
    "all providers failed, last tried: " \o lastProvider \o " - " \o errorMsg

\* mutant: every mode but the empty one is taken for the blacklist mode
BuildFailureResponseAnyMode(totalAttempts, lastProvider, lastError, mode) ==
    LET errorMsg == IF lastError.isNil THEN UnknownErrorText ELSE lastError.msg
        response == [error |-> FailureText(lastProvider, errorMsg),
                     lastProvider |-> lastProvider,
                     totalAttempts |-> totalAttempts]
    IN IF mode # ""
       THEN [error |-> response.error, lastProvider |-> response.lastProvider,
             totalAttempts |-> response.totalAttempts,
             mode |-> "blacklist_retry", hint |-> HintText]
       ELSE response

\* BuildFailureResponse: the map returned, its keys the fields of a record
BuildFailureResponse(totalAttempts, lastProvider, lastError, mode) ==
    LET errorMsg == IF lastError.isNil THEN UnknownErrorText ELSE lastError.msg
        response == [error |-> FailureText(lastProvider, errorMsg),
                     lastProvider |-> lastProvider,
                     totalAttempts |-> totalAttempts]
    IN IF mode = "blacklist"
       THEN [error |-> response.error, lastProvider |-> response.lastProvider,
             totalAttempts |-> response.totalAttempts,
             mode |-> "blacklist_retry", hint |-> HintText]
       ELSE response

\* the arguments the model draws
FailureThresholds == {1, 3}

RetryWaitSeconds == {0, 2}

Durations == {5, 7}

AttemptProviders == {"A", "B"}

Modes == {"blacklist", "Blacklist", "fallback", ""}

----------------------------------------------------------------------------
(* Reorder run by concurrent goroutines, statement by statement *)

\* the goroutines calling Reorder
Procs == 1..MaxProviders

\* rrs.mu as a value: 0 when no goroutine holds it
NoHolder == 0

\* mutant: the mutex is not waited for
MutexIgnored == TRUE

\* rrs.mu.Lock() returns only when no goroutine holds the mutex
MutexFree == mu = NoHolder

\* a goroutine that makes no call, and one about to call Reorder
NoProc == [pc |-> "idle", last |-> "", lastIdx |-> -1, out |-> <<>>]

CallingProc == [pc |-> "lock", last |-> "", lastIdx |-> -1, out |-> <<>>]

----------------------------------------------------------------------------
(* States in which a component has not been used *)

NoCall == [platform |-> "", level |-> 0, inp |-> <<>>, out |-> <<>>, read |-> "",
           rep |-> FALSE, prevOut |-> <<>>]

NoRun == [platform |-> "", level |-> 0, list |-> <<>>, k |-> 0, out |-> <<>>]

RepairIdle ==
    /\ body = [mk |-> "missing", arr |-> <<>>]
    /\ repaired = FALSE
    /\ prevBody = body
    /\ calls = 0

RRIdle ==
    /\ lastStart = NewRoundRobinState
    /\ rrCall = NoCall
    /\ run = NoRun

SeenIdle == seen = <<>>

ConcIdle ==
    /\ mu = NoHolder
    /\ procs = [p \in Procs |-> NoProc]
    /\ served = <<>>

NoResponse == [called |-> FALSE,
               given |-> [totalAttempts |-> 0, lastProvider |-> "",
                          lastError |-> NilError, mode |-> ""],
               out |-> <<>>]

RetryIdle ==
    /\ rc = NewRetryContext(0, 0)
    /\ attempts = <<>>
    /\ resp = NoResponse

\* the components used by neither the repair, the filters nor the selection
RestIdle == SeenIdle /\ ConcIdle /\ RetryIdle

----------------------------------------------------------------------------
(* The repair applied, and applied again to its own output *)

InitRepair ==
    /\ body \in InputBodies
    /\ repaired = FALSE
    /\ prevBody = body
    /\ calls = 0
    /\ RRIdle
    /\ SelectIdle
    /\ RestIdle

Repair ==
    /\ calls < MaxCalls
    /\ LET r == FixIncompleteToolUse(body)
       IN /\ body' = r.body
          /\ repaired' = r.repaired
    /\ prevBody' = body
    /\ calls' = calls + 1
    /\ UNCHANGED <<rrVars, selVars, seen, concVars, retryVars>>

NextRepair == Repair

SpecRepair == InitRepair /\ [][NextRepair]_vars

----------------------------------------------------------------------------
(* Properties of the repair *)

\* the last assistant message of b, described without LastAssistantIdx
IsLastAssistant(b, i) ==
    /\ b.mk = "array"
    /\ i \in 1..Len(b.arr)
    /\ b.arr[i].role = "assistant"
    /\ \A j \in (i + 1)..Len(b.arr) : b.arr[j].role # "assistant"

IsDanglingItem(item) == item.type = "tool_use" /\ item.id # ""

HasDanglingIds(m) ==
    m.content.isArray /\ \E k \in 1..Len(m.content.items) : IsDanglingItem(m.content.items[k])

IsToolResultMsg(m) ==
    /\ m.role = "user"
    /\ m.content.isArray
    /\ \E k \in 1..Len(m.content.items) : m.content.items[k].type = "tool_result"

FollowedByToolResult(b, i) == i + 1 <= Len(b.arr) /\ IsToolResultMsg(b.arr[i + 1])

\* C1: applying FixIncompleteToolUse to the output of FixIncompleteToolUse
\* returns that output unchanged with repaired = false.
C1_RepairIdempotent == calls >= 2 => (repaired = FALSE /\ body = prevBody)

\* C7: the output has the n messages of the input in the same positions, and
\* nothing else (repaired = false, body unchanged) or exactly one more message
\* (repaired = true).
C7_StrictlyAdditive ==
    calls >= 1 =>
        LET n == Len(prevBody.arr)
        IN \/ repaired = FALSE /\ body = prevBody
           \/ /\ repaired = TRUE
              /\ body.mk = prevBody.mk
              /\ Len(body.arr) = n + 1
              /\ \A i \in 1..n : body.arr[i] = prevBody.arr[i]

C7_Witness == calls >= 1 /\ repaired = TRUE /\ Len(prevBody.arr) = 2

\* C8: when the last assistant message has a tool_use item with a non-empty id
\* and the next message is not a user message with a tool_result, the call
\* returns repaired = true and appends one user message holding one tool_result
\* per non-empty tool_use id, in the order of the assistant message, each with
\* is_error = true and tool_use_id equal to that id.
C8_AppendsToolResults ==
    calls >= 1 =>
        \A i \in 1..Len(prevBody.arr) :
            (/\ IsLastAssistant(prevBody, i)
             /\ HasDanglingIds(prevBody.arr[i])
             /\ ~FollowedByToolResult(prevBody, i))
            => LET uses == SelectSeq(prevBody.arr[i].content.items, IsDanglingItem)
                   n == Len(prevBody.arr)
               IN /\ repaired = TRUE
                  /\ Len(body.arr) = n + 1
                  /\ body.arr[n + 1].role = "user"
                  /\ body.arr[n + 1].content.isArray
                  /\ Len(body.arr[n + 1].content.items) = Len(uses)
                  /\ \A k \in 1..Len(uses) :
                        LET res == body.arr[n + 1].content.items[k]
                        IN /\ res.type = "tool_result"
                           /\ res.tool_use_id = uses[k].id
                           /\ res.is_error = TRUE

\* an assistant message with a tool_use without id and one with an id was repaired
C8_Witness ==
    /\ calls >= 1
    /\ repaired = TRUE
    /\ \E i \in 1..Len(prevBody.arr) :
          /\ IsLastAssistant(prevBody, i)
          /\ prevBody.arr[i].content.items = <<ToolUseItem(""), ToolUseItem("T2")>>
          /\ i < Len(prevBody.arr)

\* C9: when the message right after the last assistant message is a user
\* message with array content holding a tool_result item, the body is returned
\* unchanged with repaired = false, whatever the ids of the tool_result items.
C9_ToolResultPresentUnchanged ==
    calls >= 1 =>
        \A i \in 1..Len(prevBody.arr) :
            (IsLastAssistant(prevBody, i) /\ FollowedByToolResult(prevBody, i))
            => (repaired = FALSE /\ body = prevBody)

\* the tool_result answers T2 only while the assistant asked for T1
C9_Witness ==
    /\ calls >= 1
    /\ repaired = FALSE
    /\ Len(prevBody.arr) = 2
    /\ IsLastAssistant(prevBody, 1)
    /\ prevBody.arr[1].content.isArray
    /\ prevBody.arr[1].content.items = <<ToolUseItem("T1")>>
    /\ prevBody.arr[2] = Msg("user", ArrayContent(<<TextItem, ToolResultItem("T2", FALSE, "ok")>>))

\* C20: only the last assistant message is examined. When it has no array
\* content or no tool_use item with a non-empty id, the body comes back
\* unchanged with repaired = FALSE, whatever an earlier assistant message
\* holds; so too when messages is missing, not an array, empty, or without an
\* assistant message.
C20_OnlyLastAssistantExamined ==
    (calls >= 1
       /\ \/ prevBody.mk # "array"
          \/ Len(prevBody.arr) = 0
          \/ \A i \in 1..Len(prevBody.arr) : prevBody.arr[i].role # "assistant"
          \/ \E i \in 1..Len(prevBody.arr) :
                IsLastAssistant(prevBody, i) /\ ~HasDanglingIds(prevBody.arr[i])) =>
        /\ ~repaired
        /\ body = prevBody

\* an earlier assistant message with a tool_use, the last one without
C20_Witness ==
    /\ calls = 1
    /\ prevBody.mk = "array"
    /\ Len(prevBody.arr) = 2
    /\ prevBody.arr[1].role = "assistant"
    /\ HasDanglingIds(prevBody.arr[1])
    /\ prevBody.arr[2].role = "assistant"
    /\ ~HasDanglingIds(prevBody.arr[2])
    /\ ~repaired
    /\ body = prevBody

\* C17: after FixIncompleteToolUse has returned, when the last assistant
\* message of the body has array content with a tool_use item with a non-empty
\* id, the message right after it exists, has role user and holds a
\* tool_result item.
C17_LastAssistantAnswered ==
    (calls >= 1 /\ body.mk = "array") =>
        \A i \in 1..Len(body.arr) :
            (IsLastAssistant(body, i) /\ HasDanglingIds(body.arr[i])) =>
                FollowedByToolResult(body, i)

----------------------------------------------------------------------------
(* Reorder called with any list on any key *)

InitRR == RepairIdle /\ RRIdle /\ SelectIdle /\ RestIdle

DoReorder(platform, level, providers) ==
    LET r == Reorder(lastStart, platform, level, providers)
        same == /\ rrCall.platform = platform
                /\ rrCall.level = level
                /\ rrCall.inp = providers
    IN /\ lastStart' = r.lastStart
       /\ rrCall' = [platform |-> platform, level |-> level, inp |-> providers,
                     out |-> r.out, read |-> Lookup(lastStart, Key(platform, level)),
                     rep |-> same, prevOut |-> IF same THEN rrCall.out ELSE <<>>]
       /\ UNCHANGED <<run, repairVars, selVars, seen, concVars, retryVars>>

NextRR ==
    \E pl \in RRKeys :
        \E providers \in LevelLists(pl[2]) : DoReorder(pl[1], pl[2], providers)

SpecRR == InitRR /\ [][NextRR]_vars

IsPermutation(s, t) ==
    /\ Len(s) = Len(t)
    /\ \A x \in Range(s) \cup Range(t) :
          Cardinality({i \in 1..Len(s) : s[i] = x}) = Cardinality({i \in 1..Len(t) : t[i] = x})

\* C2: Reorder returns a permutation of its input: same length, every provider
\* exactly once.
C2_ReorderPermutation ==
    /\ IsPermutation(rrCall.inp, rrCall.out)
    /\ UniqueNames(rrCall.out)

\* a rotated list of three came back
C2_Witness ==
    /\ Len(rrCall.inp) = 3
    /\ rrCall.out # rrCall.inp
    /\ rrCall.read = GetName(rrCall.inp[2])

\* C3: two successive Reorder calls on one key with the same list of at least
\* two providers return lists whose first elements differ.
C3_SuccessiveFirstsDiffer ==
    (rrCall.rep /\ Len(rrCall.inp) >= 2) => rrCall.out[1] # rrCall.prevOut[1]

\* the first of the two calls read a name that is not in the list
C3_Witness ==
    /\ rrCall.rep
    /\ Len(rrCall.inp) = 2
    /\ rrCall.prevOut = rrCall.inp
    /\ rrCall.out # rrCall.inp

\* C13: when the name stored for the key is empty or names no provider of the
\* list (of two or more providers), Reorder returns the list in its input
\* order and stores the name of the first provider of the input.
C13_UnknownStartKeepsOrder ==
    (Len(rrCall.inp) >= 2
       /\ (rrCall.read = "" \/ rrCall.read \notin Range(NamesOf(rrCall.inp)))) =>
        /\ rrCall.out = rrCall.inp
        /\ Lookup(lastStart, Key(rrCall.platform, rrCall.level)) = GetName(rrCall.inp[1])

\* a name was stored, and the list does not hold it
C13_Witness ==
    /\ Len(rrCall.inp) >= 2
    /\ rrCall.read # ""
    /\ rrCall.read \notin Range(NamesOf(rrCall.inp))
    /\ rrCall.out = rrCall.inp

\* C19: Reorder with a list of length 0 or 1 returns the list as it is and
\* leaves the whole map unchanged; with a longer list it changes no entry but
\* the one of its own key.
C19_ReorderFrame ==
    [][LET key == Key(rrCall'.platform, rrCall'.level)
       IN /\ Len(rrCall'.inp) <= 1 =>
                /\ rrCall'.out = rrCall'.inp
                /\ lastStart' = lastStart
          /\ DOMAIN lastStart' \ {key} = DOMAIN lastStart \ {key}
          /\ \A k \in DOMAIN lastStart \ {key} : lastStart'[k] = lastStart[k]]_vars

\* a call with one provider on a key, after calls with longer lists on both keys
C19_Witness ==
    /\ Len(rrCall.inp) = 1
    /\ rrCall.out = rrCall.inp
    /\ Cardinality(DOMAIN lastStart) = 2
    /\ Lookup(lastStart, Key(rrCall.platform, rrCall.level)) # GetName(rrCall.inp[1])

----------------------------------------------------------------------------
(* Reorder called again and again with one list on one key, the entry of  *)
(* the key empty at first, with calls on other keys in between             *)

InitRun ==
    /\ RepairIdle
    /\ SelectIdle
    /\ RestIdle
    /\ lastStart = NewRoundRobinState
    /\ rrCall = NoCall
    /\ \E pl \in RRKeys :
          \E providers \in LevelLists(pl[2]) :
              /\ Len(providers) >= 2
              /\ run = [platform |-> pl[1], level |-> pl[2], list |-> providers,
                        k |-> 0, out |-> <<>>]

ReorderSame ==
    /\ run.k < Len(run.list) + ExtraCalls
    /\ LET r == Reorder(lastStart, run.platform, run.level, run.list)
       IN /\ lastStart' = r.lastStart
          /\ run' = [run EXCEPT !.k = run.k + 1, !.out = r.out]
    /\ UNCHANGED <<rrCall, repairVars, selVars, seen, concVars, retryVars>>

ReorderOther ==
    \E pl \in RRKeys :
        /\ Key(pl[1], pl[2]) # Key(run.platform, run.level)
        /\ \E providers \in LevelLists(pl[2]) :
              lastStart' = Reorder(lastStart, pl[1], pl[2], providers).lastStart
        /\ UNCHANGED <<rrCall, run, repairVars, selVars, seen, concVars, retryVars>>

NextRun == ReorderSame \/ ReorderOther

SpecRun == InitRun /\ [][NextRun]_vars

\* the list s rotated left by r places
RotatedLeft(s, r) == SubSeq(s, r + 1, Len(s)) \o SubSeq(s, 1, r)

\* C4: from an empty entry, the k-th call with the same list of n >= 2
\* providers returns the list rotated left by (k-1) mod n and leaves
\* lastStart[key] the name of the first provider returned; call n+1 returns
\* the order of call 1.
C4_KthCallRotation ==
    run.k >= 1 =>
        /\ run.out = RotatedLeft(run.list, (run.k - 1) % Len(run.list))
        /\ Lookup(lastStart, Key(run.platform, run.level)) = GetName(run.out[1])
        /\ (run.k = Len(run.list) + 1 => run.out = run.list)

\* call n+1 with a list of three
C4_Witness ==
    /\ Len(run.list) = 3
    /\ run.k = 4
    /\ run.out = run.list
    /\ Cardinality(DOMAIN lastStart) >= 2

----------------------------------------------------------------------------
(* The filters applied to a request *)

InitFilter ==
    /\ RepairIdle
    /\ RRIdle
    /\ RestIdle
    /\ \/ \E ps \in ProviderLists, m \in Models, bl \in Blacklists("claude"),
               mc \in ModelCheckers, cv \in Validators :
                 req = Request("claude", ps, m, bl, mc, cv)
       \/ \E ps \in GeminiLists, m \in Models, bl \in Blacklists("gemini") :
                 req = Request("gemini", ps, m, bl, NilHook, NilHook)
    /\ stage = "input"
    /\ fres = FilterResult(<<>>, 0)
    /\ lg = NoLevelGroup
    /\ cands = <<>>

CallFilterProviders ==
    /\ stage = "input"
    /\ req.dialect # "gemini"
    /\ fres' = FilterProviders(req.providers, req.kind, req.requestedModel,
                               req.bl, req.mc, req.cv)
    /\ stage' = "filtered"
    /\ UNCHANGED <<req, lg, cands, rrVars, repairVars, seen, concVars, retryVars>>

CallFilterGeminiProviders ==
    /\ stage = "input"
    /\ req.dialect = "gemini"
    /\ fres' = FilterGeminiProviders(req.providers, req.bl)
    /\ stage' = "filtered"
    /\ UNCHANGED <<req, lg, cands, rrVars, repairVars, seen, concVars, retryVars>>

NextFilter == CallFilterProviders \/ CallFilterGeminiProviders

SpecFilter == InitFilter /\ [][NextFilter]_vars

\* C10: after FilterProviders or FilterGeminiProviders, len(Active) +
\* SkippedCount is the number of input providers.
C10_SkippedAllCounted ==
    stage = "filtered" => Len(fres.Active) + fres.SkippedCount = Len(req.providers)

\* C11: a provider is in the Active list of FilterProviders if and only if it
\* is enabled, has a URL and a credential, the config validator (when given)
\* finds no errors in it, the model checker (when given, and the requested
\* model is not empty) admits the model, and the blacklist checker (when
\* given) does not report it; Active holds nothing but input providers.
C11_ActiveIffPassesAll ==
    (stage = "filtered" /\ req.dialect = "claude") =>
        /\ Range(fres.Active) \subseteq Range(req.providers)
        /\ \A i \in 1..Len(req.providers) :
              LET p == req.providers[i]
              IN p \in Range(fres.Active) <=>
                    /\ p.Enabled
                    /\ p.APIURL # ""
                    /\ p.APIKey # ""
                    /\ (req.cv.isNil \/ p.Name \notin req.cv.set)
                    /\ (req.mc.isNil \/ req.requestedModel = "" \/ p.Name \in req.mc.set)
                    /\ (req.bl.isNil \/ <<req.kind, p.Name>> \notin req.bl.set)

\* the validator rejects A, the model checker B, C is blacklisted for another
\* kind only and stays
C11_Witness ==
    /\ stage = "filtered"
    /\ req.dialect = "claude"
    /\ req.requestedModel = "m1"
    /\ req.cv = Hook({"A"})
    /\ req.mc = Hook(Names \ {"B"})
    /\ req.bl = Hook({<<"gemini", "C">>})
    /\ Len(req.providers) = 3
    /\ NamesOf(fres.Active) = <<"C">>

\* with an empty requested model the provider the model checker rejects stays
C11_WitnessNoModel ==
    /\ stage = "filtered"
    /\ req.dialect = "claude"
    /\ req.requestedModel = ""
    /\ req.mc = Hook(Names \ {"A"})
    /\ NamesOf(fres.Active) = <<"A">>

\* C12: a GeminiProvider is in the Active list of FilterGeminiProviders if and
\* only if it is enabled, its base URL is not empty and it is not blacklisted
\* for kind "gemini"; the requested model and the credential do not matter.
C12_GeminiActiveIff ==
    (stage = "filtered" /\ req.dialect = "gemini") =>
        /\ Range(fres.Active) \subseteq Range(req.providers)
        /\ \A i \in 1..Len(req.providers) :
              LET p == req.providers[i]
              IN p \in Range(fres.Active) <=>
                    /\ p.Enabled
                    /\ p.BaseURL # ""
                    /\ (req.bl.isNil \/ <<"gemini", p.Name>> \notin req.bl.set)

\* a provider without credential stays although a model is requested and it
\* is blacklisted for another kind
C12_Witness ==
    /\ stage = "filtered"
    /\ req.dialect = "gemini"
    /\ req.requestedModel = "m1"
    /\ req.bl = Hook({<<"claude", "A">>})
    /\ Len(fres.Active) >= 1
    /\ fres.Active[1].Name = "A"
    /\ fres.Active[1].APIKey = ""

----------------------------------------------------------------------------
(* The selection of the candidates of a request *)

InitSelect ==
    /\ RepairIdle
    /\ RestIdle
    /\ \/ \E ps \in LevelProviderLists, bl \in Blacklists("claude") :
                 req = Request("claude", ps, "", bl, NilHook, NilHook)
       \/ \E ps \in LevelGeminiLists, bl \in Blacklists("gemini") :
                 req = Request("gemini", ps, "", bl, NilHook, NilHook)
    /\ lastStart \in RRStates(req.kind)
    /\ rrCall = NoCall
    /\ run = NoRun
    /\ stage = "input"
    /\ fres = FilterResult(<<>>, 0)
    /\ lg = NoLevelGroup
    /\ cands = <<>>

Select(result) ==
    LET groups == GroupByLevel(result.Active)
        sel == SelectCandidates(lastStart, req.kind, groups)
    IN /\ fres' = result
       /\ lg' = groups
       /\ cands' = sel.cands
       /\ lastStart' = sel.lastStart
       /\ stage' = "selected"
       /\ UNCHANGED <<req, rrCall, run, repairVars, seen, concVars, retryVars>>

SelectProviders ==
    /\ stage = "input"
    /\ req.dialect # "gemini"
    /\ Select(FilterProviders(req.providers, req.kind, req.requestedModel,
                              req.bl, req.mc, req.cv))

SelectGeminiProviders ==
    /\ stage = "input"
    /\ req.dialect = "gemini"
    /\ Select(FilterGeminiProviders(req.providers, req.bl))

NextSelect == SelectProviders \/ SelectGeminiProviders

SpecSelect == InitSelect /\ [][NextSelect]_vars

\* C5: no provider whose name the blacklist check reports as blacklisted for
\* the kind of the request is in the Active list of FilterProviders or of
\* FilterGeminiProviders, nor in the candidate list built from it.
C5_BlacklistedNeverSelected ==
    (stage = "selected" /\ ~req.bl.isNil) =>
        \A n \in Names :
            <<req.kind, n>> \in req.bl.set =>
                /\ \A i \in 1..Len(fres.Active) : fres.Active[i].Name # n
                /\ \A i \in 1..Len(cands) : cands[i].Name # n

\* B is blacklisted, A and C of one level remain and are rotated
C5_Witness ==
    /\ stage = "selected"
    /\ req.bl = Hook({<<req.kind, "B">>})
    /\ NamesOf(req.providers) = <<"A", "B", "C">>
    /\ NamesOf(cands) = <<"C", "A">>

\* the level a configured level stands for
NormalLevel(l) == IF l <= 0 THEN 1 ELSE l

\* C6: in the candidate list every provider of a lower normalized level
\* precedes every provider of a higher one, whatever the round-robin state;
\* SortedLevels is strictly ascending; a configured level <= 0 counts as 1.
C6_LevelOrder ==
    stage = "selected" =>
        /\ \A i, j \in 1..Len(cands) :
              NormalLevel(cands[i].Level) < NormalLevel(cands[j].Level) => i < j
        /\ \A i, j \in 1..Len(lg.SortedLevels) :
              i < j => lg.SortedLevels[i] < lg.SortedLevels[j]
        /\ \A l \in DOMAIN lg.Groups :
              \A i \in 1..Len(lg.Groups[l]) : NormalLevel(lg.Groups[l][i].Level) = l
        /\ IsPermutation(cands, fres.Active)

\* A (level unset) and B (level 1) are rotated, C (level 2) comes last
C6_Witness ==
    /\ stage = "selected"
    /\ req.providers = <<MkLevelProvider("A", 0), MkLevelProvider("B", 1), MkLevelProvider("C", 2)>>
    /\ NamesOf(cands) = <<"B", "A", "C">>

----------------------------------------------------------------------------
(* Reorder called with any list on any key, the names passed recorded *)

\* the names recorded for a key
SeenAt(key) == IF key \in DOMAIN seen THEN seen[key] ELSE {}

InitSeen ==
    /\ RepairIdle
    /\ RRIdle
    /\ SelectIdle
    /\ RestIdle

ReorderSeen(platform, level, providers) ==
    LET key == Key(platform, level)
    IN /\ lastStart' = Reorder(lastStart, platform, level, providers).lastStart
       /\ seen' = [k \in DOMAIN seen \cup {key} |->
                      IF k = key THEN SeenAt(key) \cup Range(NamesOf(providers))
                      ELSE seen[k]]
       /\ UNCHANGED <<rrCall, run, repairVars, selVars, concVars, retryVars>>

NextSeen ==
    \E pl \in RRKeys :
        \E providers \in LevelLists(pl[2]) : ReorderSeen(pl[1], pl[2], providers)

SpecSeen == InitSeen /\ [][NextSeen]_vars

\* C18: every name stored in lastStart is non-empty and is the name of a
\* provider of some list passed to Reorder for the key it is stored under.
C18_StoredNameWasPassed ==
    \A k \in DOMAIN lastStart :
        /\ lastStart[k] # ""
        /\ lastStart[k] \in SeenAt(k)

\* both keys have a name stored; one key has seen every name, the other two
\* names only, and not the name stored for the first
C18_Witness ==
    /\ Cardinality(DOMAIN lastStart) = 2
    /\ \E k1, k2 \in DOMAIN lastStart :
          /\ k1 # k2
          /\ Cardinality(SeenAt(k1)) = MaxProviders
          /\ lastStart[k1] \notin SeenAt(k2)
          /\ Cardinality(SeenAt(k2)) = 2

----------------------------------------------------------------------------
(* As many goroutines as the list has providers call Reorder with the same *)
(* list on the same key; each statement of Reorder is a step               *)

\* the key, the list and the goroutines of the run
ConcKey == Key(run.platform, run.level)

Callers == 1..Len(run.list)

InitConc ==
    /\ RepairIdle
    /\ SelectIdle
    /\ SeenIdle
    /\ RetryIdle
    /\ rrCall = NoCall
    /\ \E pl \in RRKeys :
          \E providers \in LevelLists(pl[2]) :
              /\ Len(providers) >= 2
              /\ run = [platform |-> pl[1], level |-> pl[2], list |-> providers,
                        k |-> 0, out |-> <<>>]
              /\ \/ lastStart = NewRoundRobinState
                 \/ \E n \in Names : lastStart = Store(NewRoundRobinState, Key(pl[1], pl[2]), n)
              /\ procs = [p \in Procs |-> IF p <= Len(providers) THEN CallingProc ELSE NoProc]
    /\ mu = NoHolder
    /\ served = <<>>

\* rrs.mu.Lock()
Lock(p) ==
    /\ procs[p].pc = "lock"
    /\ MutexFree
    /\ mu' = p
    /\ procs' = [procs EXCEPT ![p].pc = "read"]
    /\ UNCHANGED <<lastStart, served, rrCall, run, repairVars, selVars, seen, retryVars>>

\* lastStart := rrs.lastStart[key]
ReadLast(p) ==
    /\ procs[p].pc = "read"
    /\ procs' = [procs EXCEPT ![p].pc = "store", ![p].last = Lookup(lastStart, ConcKey)]
    /\ UNCHANGED <<lastStart, mu, served, rrCall, run, repairVars, selVars, seen, retryVars>>

\* rrs.lastStart[key] = getName(providers[0])
StoreFirst(p) ==
    /\ procs[p].pc = "store"
    /\ lastStart' = Store(lastStart, ConcKey, GetName(run.list[1]))
    /\ procs' = [procs EXCEPT ![p].pc = "scan"]
    /\ UNCHANGED <<mu, served, rrCall, run, repairVars, selVars, seen, retryVars>>

\* the two early returns and the search for lastIdx
Scan(p) ==
    /\ procs[p].pc = "scan"
    /\ LET lastIdx == LastIdx(run.list, procs[p].last)
       IN procs' = IF procs[p].last = "" \/ lastIdx = -1
                   THEN [procs EXCEPT ![p].pc = "unlock", ![p].out = run.list]
                   ELSE [procs EXCEPT ![p].pc = "rotate", ![p].lastIdx = lastIdx]
    /\ UNCHANGED <<lastStart, mu, served, rrCall, run, repairVars, selVars, seen, retryVars>>

\* the loop that fills result
RotateList(p) ==
    /\ procs[p].pc = "rotate"
    /\ procs' = [procs EXCEPT ![p].pc = "update",
                              ![p].out = Rotate(run.list, procs[p].lastIdx)]
    /\ UNCHANGED <<lastStart, mu, served, rrCall, run, repairVars, selVars, seen, retryVars>>

\* rrs.lastStart[key] = getName(result[0])
UpdateStart(p) ==
    /\ procs[p].pc = "update"
    /\ lastStart' = Store(lastStart, ConcKey, GetName(procs[p].out[1]))
    /\ procs' = [procs EXCEPT ![p].pc = "unlock"]
    /\ UNCHANGED <<mu, served, rrCall, run, repairVars, selVars, seen, retryVars>>

\* the deferred rrs.mu.Unlock() and the return
Unlock(p) ==
    /\ procs[p].pc = "unlock"
    /\ mu' = NoHolder
    /\ procs' = [procs EXCEPT ![p].pc = "done"]
    /\ served' = Append(served, [proc |-> p, read |-> procs[p].last,
                                 first |-> GetName(procs[p].out[1])])
    /\ UNCHANGED <<lastStart, rrCall, run, repairVars, selVars, seen, retryVars>>

NextConc ==
    \E p \in Callers :
        \/ Lock(p)
        \/ ReadLast(p)
        \/ StoreFirst(p)
        \/ Scan(p)
        \/ RotateList(p)
        \/ UpdateStart(p)
        \/ Unlock(p)

SpecConc == InitConc /\ [][NextConc]_vars

\* the goroutine has read rrs.lastStart[key]
HasRead(p) == procs[p].pc \in {"store", "scan", "rotate", "update", "unlock", "done"}

\* name b is the name of the provider after the one named a, cyclically
FollowsInList(a, b) ==
    \E i \in 1..Len(run.list) :
        /\ GetName(run.list[i]) = a
        /\ GetName(run.list[(i % Len(run.list)) + 1]) = b

\* C14: concurrent Reorder calls on one key with one list of n >= 2 providers
\* take effect one at a time: no two of the n calls read the same lastStart
\* value, each call reads the name the call before it returned first and
\* returns the provider after it first, and the n calls return n distinct
\* first providers.
C14_CallsTakeEffectOneAtATime ==
    /\ \A p, q \in Callers :
          (p # q /\ HasRead(p) /\ HasRead(q)) => procs[p].last # procs[q].last
    /\ \A i \in 1..(Len(served) - 1) :
          /\ served[i + 1].read = served[i].first
          /\ FollowsInList(served[i].first, served[i + 1].first)
    /\ \A i, j \in 1..Len(served) : i # j => served[i].first # served[j].first
    /\ \A p \in Callers : procs[p].pc \notin {"lock", "done"} => mu = p

\* three goroutines have returned, the third one first and the first one last
C14_Witness ==
    /\ Len(run.list) = 3
    /\ Len(served) = 3
    /\ served[1].proc = 3
    /\ served[3].proc = 1
    /\ served[1].read # ""
    /\ served[1].first # GetName(run.list[1])

----------------------------------------------------------------------------
(* A RetryContext records attempts; the failure response is built from it *)

InitRetry ==
    /\ RepairIdle
    /\ RRIdle
    /\ SelectIdle
    /\ SeenIdle
    /\ ConcIdle
    /\ \E ft \in FailureThresholds, ws \in RetryWaitSeconds : rc = NewRetryContext(ft, ws)
    /\ attempts = <<>>
    /\ resp = NoResponse

DoRecordAttempt(provider, duration, err) ==
    /\ ~resp.called
    /\ Len(attempts) < MaxAttempts
    /\ rc' = RecordAttempt(rc, provider, duration, err)
    /\ attempts' = Append(attempts, [provider |-> provider, duration |-> duration, err |-> err])
    /\ UNCHANGED <<resp, repairVars, rrVars, selVars, seen, concVars>>

\* BuildFailureResponse called with the fields of the context
DoBuildFailureResponse(mode) ==
    /\ ~resp.called
    /\ resp' = [called |-> TRUE,
                given |-> [totalAttempts |-> rc.TotalAttempts,
                           lastProvider |-> rc.LastProvider,
                           lastError |-> rc.LastError,
                           mode |-> mode],
                out |-> BuildFailureResponse(rc.TotalAttempts, rc.LastProvider,
                                             rc.LastError, mode)]
    /\ UNCHANGED <<rc, attempts, repairVars, rrVars, selVars, seen, concVars>>

NextRetry ==
    \/ \E provider \in AttemptProviders, duration \in Durations, err \in Errors :
          DoRecordAttempt(provider, duration, err)
    \/ \E mode \in Modes : DoBuildFailureResponse(mode)

SpecRetry == InitRetry /\ [][NextRetry]_vars

\* C15: TotalAttempts is 0 at first and grows by exactly 1 with every
\* RecordAttempt call, so it is the number of calls made and never decreases;
\* BuildFailureResponse reports the totalAttempts and the lastProvider it is
\* given unchanged.
C15_AttemptsCounted ==
    /\ rc.TotalAttempts = Len(attempts)
    /\ resp.called =>
          /\ resp.out.totalAttempts = resp.given.totalAttempts
          /\ resp.out.lastProvider = resp.given.lastProvider

\* two attempts, the second without error, then the response
C15_Witness ==
    /\ Len(attempts) = 2
    /\ attempts[1].err = Err("e1")
    /\ attempts[2].err = NilError
    /\ attempts[2].provider = "B"
    /\ resp.called
    /\ resp.out.totalAttempts = 2
    /\ resp.out.lastProvider = "B"

\* C16: the failure response always holds error, lastProvider and
\* totalAttempts; it holds mode = "blacklist_retry" and hint if and only if
\* the mode argument is exactly "blacklist"; with no last error the error
\* text is built with the fixed unknown-error text.
C16_FailureResponseShape ==
    resp.called =>
        LET keys == DOMAIN resp.out
        IN /\ {"error", "lastProvider", "totalAttempts"} \subseteq keys
           /\ resp.given.mode = "blacklist" =>
                 /\ {"mode", "hint"} \subseteq keys
                 /\ resp.out.mode = "blacklist_retry"
                 /\ resp.out.hint = HintText
           /\ resp.given.mode # "blacklist" => keys \cap {"mode", "hint"} = {}
           /\ resp.given.lastError.isNil =>
                 resp.out.error = "all providers failed, last tried: "
                                     \o resp.given.lastProvider \o " - unknown error"

\* a response for a mode that differs from "blacklist" in case only, built
\* when no attempt had an error
C16_Witness ==
    /\ resp.called
    /\ resp.given.mode = "Blacklist"
    /\ Len(attempts) >= 1
    /\ resp.given.lastError = NilError
    /\ DOMAIN resp.out = {"error", "lastProvider", "totalAttempts"}

\* a response of the blacklist mode
C16_WitnessBlacklist ==
    /\ resp.called
    /\ resp.given.mode = "blacklist"
    /\ resp.given.lastError = Err("e2")
    /\ resp.out.mode = "blacklist_retry"

----------------------------------------------------------------------------
(* A list of providers of any level, some disabled or blacklisted, is      *)
(* filtered or grouped by level                                            *)

InitGroup ==
    /\ RepairIdle
    /\ RRIdle
    /\ RestIdle
    /\ \/ \E ps \in GroupProviderLists, bl \in Blacklists("claude") :
                 req = Request("claude", ps, "", bl, NilHook, NilHook)
       \/ \E ps \in GroupGeminiLists, bl \in Blacklists("gemini") :
                 req = Request("gemini", ps, "", bl, NilHook, NilHook)
    /\ stage = "input"
    /\ fres = FilterResult(<<>>, 0)
    /\ lg = NoLevelGroup
    /\ cands = <<>>

CallGroupByLevel ==
    /\ stage = "input"
    /\ lg' = GroupByLevel(req.providers)
    /\ stage' = "grouped"
    /\ UNCHANGED <<req, fres, cands, rrVars, repairVars, seen, concVars, retryVars>>

NextGroup == CallFilterProviders \/ CallFilterGeminiProviders \/ CallGroupByLevel

SpecGroup == InitGroup /\ [][NextGroup]_vars

\* s lists some of the elements of t, each once, in the order they have in t
\* (t without repeated element)
IsSubsequence(s, t) ==
    \E f \in [1..Len(s) -> 1..Len(t)] :
        /\ \A i \in 1..Len(s) : s[i] = t[f[i]]
        /\ \A i, j \in 1..Len(s) : i < j => f[i] < f[j]

\* C21: the Active list of FilterProviders and of FilterGeminiProviders is a
\* subsequence of the input list; each group of GroupByLevel lists its
\* providers in their input order, every input provider is in exactly one
\* group, once, and no group is empty.
C21_OrderPreserved ==
    /\ stage = "filtered" => IsSubsequence(fres.Active, req.providers)
    /\ stage = "grouped" =>
          /\ \A l \in DOMAIN lg.Groups :
                /\ lg.Groups[l] # <<>>
                /\ IsSubsequence(lg.Groups[l], req.providers)
          /\ \A i \in 1..Len(req.providers) :
                Cardinality({<<l, k>> \in UNION {{l} \X (1..Len(lg.Groups[l])) : l \in DOMAIN lg.Groups} :
                                lg.Groups[l][k] = req.providers[i]}) = 1

\* three providers, A and C of one level and B of another, grouped
C21_Witness ==
    /\ stage = "grouped"
    /\ Len(req.providers) = 3
    /\ DOMAIN lg.Groups = {1, 2}
    /\ NamesOf(lg.Groups[1]) = <<"A", "C">>
    /\ NamesOf(lg.Groups[2]) = <<"B">>
    /\ req.providers[1].Level = 0

\* A and C are left of three providers, B being blacklisted
C21_WitnessFiltered ==
    /\ stage = "filtered"
    /\ Len(req.providers) = 3
    /\ NamesOf(fres.Active) = <<"A", "C">>
    /\ ~req.bl.isNil

\* the calls recorded that carried an error
FailedAttempts == {i \in 1..Len(attempts) : ~attempts[i].err.isNil}

\* C22: after any sequence of RecordAttempt calls LastProvider and
\* LastDuration are those of the most recent call, and LastError is the error
\* of the most recent call that carried an error (nil when there was none):
\* a call without error leaves LastError as it was.
C22_LastFieldsOfContext ==
    /\ Len(attempts) >= 1 =>
          /\ rc.LastProvider = attempts[Len(attempts)].provider
          /\ rc.LastDuration = attempts[Len(attempts)].duration
    /\ FailedAttempts = {} => rc.LastError = NilError
    /\ FailedAttempts # {} =>
          \E i \in FailedAttempts :
              /\ \A j \in FailedAttempts : j <= i
              /\ rc.LastError = attempts[i].err

\* A fails, then B succeeds: LastError is the error of A, LastProvider is B
C22_Witness ==
    /\ Len(attempts) = 2
    /\ attempts[1] = [provider |-> "A", duration |-> 5, err |-> Err("e1")]
    /\ attempts[2] = [provider |-> "B", duration |-> 7, err |-> NilError]
    /\ rc.LastProvider = "B"
    /\ rc.LastDuration = 7
    /\ rc.LastError = Err("e1")

====
